---- MODULE Spec2Model ----
(***************************************************************************)
(* Voice-to-Task meeting assistant: the meeting processing pipeline        *)
(* (app/workers/tasks.py), the API routes that feed it, the integration    *)
(* records and the task sync worker, as state machines over the committed  *)
(* database rows and the open database sessions.                           *)
(***************************************************************************)
EXTENDS Integers, Sequences, FiniteSets, TLC

(* ---- bounds of the model ------------------------------------------------ *)
NumMeetings == 1
NumJobs == 2
MaxExtract == 1
NumTasks == 2
NumIntegrations == 2
NumSyncJobs == 2
NumStored == 6
MaxSegments == 2
MaxErrorCount == 2

(* ---- program constants -------------------------------------------------- *)
MaxRetries == 3
SimilarityThreshold == 85
SearchLimit == 5
AudioChunkDurationSeconds == 600

Users == {"u1", "u2"}
MeetingIds == 1..NumMeetings
JobIds == 1..NumJobs
TaskIds == 1..NumTasks
IntegrationIds == 1..NumIntegrations
SyncJobIds == 1..NumSyncJobs
IntegrationTypes == {"asana", "trello", "jira"}
None == "None"
NoProgress == -1

VARIABLES
    meetings,      \* committed rows of table meetings
    transcripts,   \* rows of table transcripts, one slot per meeting (unique meeting_id)
    tasks,         \* rows of table tasks
    uploadTx,      \* per meeting: the open transaction of an upload_audio request
    jobs,          \* process_meeting Celery jobs with their open session
    integrations,  \* rows of table integrations
    connections,   \* ConnectionManager.meeting_connections: <<user, meeting>> sockets
    syncJobs,      \* sync_task_to_external Celery jobs with their open session
    response,      \* the last HTTP response: who asked, the outcome, what it carried
    corpus,        \* duplicate search: the stored tasks as the query sees them
    query,         \* duplicate search: the call of check_for_duplicates
    found,         \* duplicate search: the list check_for_duplicates returned
    chunking,      \* transcription: the recording, its windows and the stitching loop
    segments,      \* transcription: the rows of table transcript_segments
    priority       \* task extraction: a priority string and what it was mapped to

apiVars == <<integrations, connections, syncJobs, response>>

calcVars == <<corpus, query, found, chunking, segments, priority>>

vars == <<meetings, transcripts, tasks, uploadTx, jobs,
          integrations, connections, syncJobs, response, corpus, query, found, chunking, segments,
          priority>>

(* ---- rows --------------------------------------------------------------- *)
NoMeeting ==
    [exists |-> FALSE, user_id |-> None, status |-> None, status_message |-> None,
     processing_progress |-> 0, error_message |-> None, audio_file_path |-> None,
     title |-> None]

NewMeeting(u) ==
    [exists |-> TRUE, user_id |-> u, status |-> "pending", status_message |-> None,
     processing_progress |-> 0, error_message |-> None, audio_file_path |-> None,
     title |-> "title"]

\* tx = 0: committed; tx = j: inserted (flushed) in job j's open transaction.
\* full_text, segments_text (the text column of its transcript_segments) and
\* original_text_hash hold where the stored value came from.
NoTranscript ==
    [exists |-> FALSE, tx |-> 0, embedded |-> FALSE,
     full_text |-> None, segments_text |-> None, original_text_hash |-> None]

\* The text the speech-to-text provider returned, before any redaction.
ProviderText == "provider text"

\* Nothing transcribed, nothing redacted yet.
NoTranscription == [full_text |-> None, segments |-> None]

NoRedaction == [redacted_text |-> None, original_hash |-> None]

\* PIIRedactionService.redact_transcript: (redacted_text, original_hash).
RedactTranscript(text) ==
    IF text = ProviderText
    THEN [redacted_text |-> "redacted provider text",
          original_hash |-> "sha256 of provider text"]
    ELSE NoRedaction

\* TranscriptionService.transcribe: full_text and the text of each segment
\* are the provider's.
TranscriptionResult == [full_text |-> ProviderText, segments |-> ProviderText]

\* The row create_with_segments inserts in transaction tx: transcript_data
\* from the redactor's output, segments_data from the transcription result.
TranscriptRow(tx, redaction, result) ==
    [exists |-> TRUE, tx |-> tx, embedded |-> FALSE,
     full_text |-> redaction.redacted_text,
     segments_text |-> result.segments,
     original_text_hash |-> redaction.original_hash]

NoTask ==
    [exists |-> FALSE, tx |-> 0, meeting_id |-> 0, status |-> None,
     embedding |-> FALSE, is_duplicate |-> FALSE, duplicate_of_id |-> 0,
     external_id |-> None, external_service |-> None, synced_at |-> None]

\* committed = FALSE: inserted (flushed) by a create request that has not
\* committed yet, invisible to every other session.
NoIntegration ==
    [exists |-> FALSE, committed |-> FALSE, user_id |-> None, integration_type |-> None,
     is_active |-> FALSE, error_count |-> 0, last_error |-> None, last_synced_at |-> None]

NewIntegration(u, type) ==
    [exists |-> TRUE, committed |-> FALSE, user_id |-> u, integration_type |-> type,
     is_active |-> TRUE, error_count |-> 0, last_error |-> None, last_synced_at |-> None]

\* seen: the integration's error_count as this session loaded it.
NoSyncJob ==
    [pc |-> "free", task |-> 0, integration |-> 0, retries |-> 0, seen |-> 0,
     attempts |-> <<>>, countdown |-> 0]

\* code: the HTTP status; carried: the rows the response body shows.
NoResponse == [caller |-> None, code |-> 0, carried |-> {}]

Respond(c, code, carried) == [caller |-> c, code |-> code, carried |-> carried]

NoJob ==
    [pc |-> "free", meeting |-> 0, retries |-> 0, sessOk |-> TRUE,
     startStatus |-> None, cause |-> None, error |-> None,
     extracted |-> 0, created |-> {}, log |-> <<>>,
     transcription_result |-> NoTranscription, redaction |-> NoRedaction,
     extractor_input |-> None, countdown |-> 0]

(* ---- repositories ------------------------------------------------------- *)
\* MeetingRepository.update_status over BaseRepository.update: an argument
\* that is None is left out of update_data, and update() skips None values.
UpdateStatus(row, status, msg, progress, err) ==
    IF ~row.exists THEN row
    ELSE [row EXCEPT
            !.status = status,
            !.status_message = IF msg # None THEN msg ELSE @,
            !.processing_progress = IF progress # NoProgress THEN progress ELSE @,
            !.error_message = IF err # None THEN err ELSE @]

\* session.commit(): the rows inserted in job j's transaction become visible.
CommitRows(rows, j) == [k \in DOMAIN rows |-> IF rows[k].exists /\ rows[k].tx = j
                                               THEN [rows[k] EXCEPT !.tx = 0]
                                               ELSE rows[k]]

\* rollback (session closed without commit): the inserted rows are gone.
RollbackRows(rows, j, empty) == [k \in DOMAIN rows |-> IF rows[k].exists /\ rows[k].tx = j
                                                        THEN empty
                                                        ELSE rows[k]]

\* A write to the meeting row waits while an upload request's transaction
\* holds the row (its UPDATE is flushed, its commit comes after the response).
RowFree(m) == uploadTx[m] = "none"

Append1(j, ev) == Append(jobs[j].log, ev)

\* The run of job j is over: its session is closed, its locals are gone.
EndRun(j, pc, retries) ==
    [NoJob EXCEPT !.pc = pc, !.meeting = jobs[j].meeting, !.retries = retries]

\* The countdown of a retry: 60 * (2 ** task.request.retries) seconds.
Countdown(retries) == 60 * 2^retries

\* task.retry(exc=e, countdown=...) while request.retries < max_retries: the
\* job is queued again, to run after the countdown, with retries + 1.
Retry(j) ==
    [EndRun(j, "queued", jobs[j].retries + 1)
        EXCEPT !.countdown = Countdown(jobs[j].retries)]

(* ---- initial state ------------------------------------------------------ *)
\* No call of a service function is under way.
SearchIdle ==
    /\ corpus = <<>>
    /\ query = [pc |-> "idle"]
    /\ found = <<>>

ChunkIdle ==
    /\ chunking = [pc |-> "idle"]
    /\ segments = {}

PriorityIdle == priority = [pc |-> "idle"]

CalcIdle == SearchIdle /\ ChunkIdle /\ PriorityIdle

Init ==
    /\ meetings = [m \in MeetingIds |-> NoMeeting]
    /\ transcripts = [m \in MeetingIds |-> NoTranscript]
    /\ tasks = [t \in TaskIds |-> NoTask]
    /\ uploadTx = [m \in MeetingIds |-> "none"]
    /\ jobs = [j \in JobIds |-> NoJob]
    /\ integrations = [i \in IntegrationIds |-> NoIntegration]
    /\ connections = {}
    /\ syncJobs = [s \in SyncJobIds |-> NoSyncJob]
    /\ response = NoResponse
    /\ CalcIdle

(* ---- API: meetings ------------------------------------------------------ *)
\* POST /meetings
CreateMeeting(u) ==
    /\ \E m \in MeetingIds :
        /\ ~meetings[m].exists
        /\ \A k \in MeetingIds : k < m => meetings[k].exists
        /\ meetings' = [meetings EXCEPT ![m] = NewMeeting(u)]
    /\ UNCHANGED <<transcripts, tasks, uploadTx, jobs>>
    /\ UNCHANGED <<apiVars, calcVars>>

\* POST /meetings/{id}/upload, up to the response: the status update and the
\* audio info are flushed in the request's transaction, process_meeting.delay
\* has put the job on the queue, the commit of get_db is still to come.
UploadAudio(m) ==
    /\ meetings[m].exists
    /\ RowFree(m)
    /\ \E j \in JobIds :
        /\ jobs[j].pc = "free"
        /\ \A k \in JobIds : k < j => jobs[k].pc # "free"
        /\ jobs' = [jobs EXCEPT ![j] = [NoJob EXCEPT !.pc = "queued", !.meeting = m]]
    /\ uploadTx' = [uploadTx EXCEPT ![m] = "open"]
    /\ UNCHANGED <<meetings, transcripts, tasks>>
    /\ UNCHANGED <<apiVars, calcVars>>

\* get_db: session.commit() after the handler returned.
UploadCommit(m) ==
    /\ uploadTx[m] = "open"
    /\ meetings' = [meetings EXCEPT ![m] =
            [UpdateStatus(@, "uploading", "Uploading audio file...", NoProgress, None)
                EXCEPT !.audio_file_path = IF meetings[m].exists THEN "path" ELSE @]]
    /\ uploadTx' = [uploadTx EXCEPT ![m] = "none"]
    /\ UNCHANGED <<transcripts, tasks, jobs>>
    /\ UNCHANGED <<apiVars, calcVars>>

\* POST /meetings/{id}/upload when save_upload, get_audio_duration or
\* process_meeting.delay raises: the except clause has flushed
\* update_status(FAILED, error_message=str(e)) in the request's transaction and
\* raised HTTPException(500); no job is on the queue.
UploadAudioFails(m) ==
    /\ meetings[m].exists
    /\ RowFree(m)
    /\ uploadTx' = [uploadTx EXCEPT ![m] = "failed"]
    /\ UNCHANGED <<meetings, transcripts, tasks, jobs>>
    /\ UNCHANGED <<apiVars, calcVars>>

\* get_db: the HTTPException arrives at the yield, session.rollback() takes
\* back everything the request flushed, the failed status included.
UploadRollback(m) ==
    /\ uploadTx[m] = "failed"
    /\ uploadTx' = [uploadTx EXCEPT ![m] = "none"]
    /\ UNCHANGED <<meetings, transcripts, tasks, jobs>>
    /\ UNCHANGED <<apiVars, calcVars>>

(* ---- worker: process_meeting -------------------------------------------- *)
UserOf(m) == meetings[m].user_id

\* update_status(...) followed by session.commit(): the status change and
\* every row flushed so far in job j's transaction are committed together.
CommitStatus(j, status, msg, progress, err) ==
    /\ meetings' = [meetings EXCEPT ![jobs[j].meeting] =
                        UpdateStatus(@, status, msg, progress, err)]
    /\ transcripts' = CommitRows(transcripts, j)
    /\ tasks' = CommitRows(tasks, j)

\* An exception reaches the except clause of _process_meeting_async.  dbError:
\* it was raised by a failed flush, which leaves the session's transaction
\* rolled back and the session unusable until Session.rollback().
Raise(j, cause, text, dbError) ==
    /\ jobs' = [jobs EXCEPT ![j].pc = "handler", ![j].cause = cause,
                            ![j].error = text, ![j].sessOk = ~dbError]
    /\ transcripts' = IF dbError THEN RollbackRows(transcripts, j, NoTranscript)
                      ELSE transcripts
    /\ tasks' = IF dbError THEN RollbackRows(tasks, j, NoTask) ELSE tasks
    /\ UNCHANGED <<meetings, uploadTx>>

\* The worker takes the job: new session, meeting_repo.get_by_id.
JobLoad(j) ==
    /\ jobs[j].pc = "queued"
    /\ LET m == jobs[j].meeting IN
       jobs' = [jobs EXCEPT ![j] =
            IF meetings[m].exists
            THEN [@ EXCEPT !.pc = "loaded", !.startStatus = meetings[m].status,
                           !.sessOk = TRUE, !.cause = None, !.error = None,
                           !.extracted = 0, !.created = {}, !.log = <<>>,
                           !.transcription_result = NoTranscription,
                           !.redaction = NoRedaction,
                           !.extractor_input = None]
            ELSE EndRun(j, "notfound", jobs[j].retries)]
    /\ UNCHANGED <<meetings, transcripts, tasks, uploadTx>>
    /\ UNCHANGED <<apiVars, calcVars>>

\* A run that starts the audio work without committing the phase's status.
JobBeginUncommitted(j) ==
    /\ jobs[j].pc = "loaded"
    /\ jobs' = [jobs EXCEPT ![j].pc = "normalize"]
    /\ UNCHANGED <<meetings, transcripts, tasks, uploadTx>>
    /\ UNCHANGED <<apiVars, calcVars>>

\* "Update status: Processing", progress 5.
JobBegin(j) ==
    /\ jobs[j].pc = "loaded"
    /\ RowFree(jobs[j].meeting)
    /\ CommitStatus(j, "processing", "Preparing audio file...", 5, None)
    /\ jobs' = [jobs EXCEPT ![j].pc = "normalize", ![j].log = Append1(j, "status:5")]
    /\ UNCHANGED uploadTx
    /\ UNCHANGED <<apiVars, calcVars>>

\* 1. normalize_audio, then "Update status: Transcribing", progress 20.
Normalize(j, ok) ==
    /\ jobs[j].pc = "normalize"
    /\ IF ok
       THEN /\ RowFree(jobs[j].meeting)
            /\ CommitStatus(j, "transcribing", "Transcribing audio...", 20, None)
            /\ jobs' = [jobs EXCEPT ![j].pc = "transcribe",
                            ![j].log = Append1(j, "normalize") \o <<"status:20">>]
            /\ UNCHANGED uploadTx
       ELSE Raise(j, "capability", "Audio normalization failed", FALSE)
    /\ UNCHANGED <<apiVars, calcVars>>

\* 2. transcription_service.transcribe, then status Processing, progress 50.
Transcribe(j, ok) ==
    /\ jobs[j].pc = "transcribe"
    /\ IF ok
       THEN /\ RowFree(jobs[j].meeting)
            /\ CommitStatus(j, "processing", "Redacting sensitive information...", 50, None)
            /\ jobs' = [jobs EXCEPT ![j].pc = "redact",
                            ![j].transcription_result = TranscriptionResult,
                            ![j].log = Append1(j, "transcribe") \o <<"status:50">>]
            /\ UNCHANGED uploadTx
       ELSE Raise(j, "capability", "Transcription failed", FALSE)
    /\ UNCHANGED <<apiVars, calcVars>>

\* 3. pii_service.redact_transcript.
Redact(j, ok) ==
    /\ jobs[j].pc = "redact"
    /\ IF ok
       THEN /\ jobs' = [jobs EXCEPT ![j].pc = "store", ![j].log = Append1(j, "redact"),
                            ![j].redaction =
                                RedactTranscript(jobs[j].transcription_result.full_text)]
            /\ UNCHANGED <<meetings, transcripts, tasks, uploadTx>>
       ELSE Raise(j, "capability", "Redaction failed", FALSE)
    /\ UNCHANGED <<apiVars, calcVars>>

\* transcript_repo.create_with_segments: INSERT into transcripts (flush).
\* transcripts.meeting_id is UNIQUE and references meetings.id.
StoreTranscript(j) ==
    /\ jobs[j].pc = "store"
    /\ LET m == jobs[j].meeting IN
       \* an uncommitted insert of the same key by another session makes this one wait
       /\ ~(transcripts[m].exists /\ transcripts[m].tx # 0)
       /\ IF transcripts[m].exists \/ ~meetings[m].exists
          THEN Raise(j, "unique", "IntegrityError", TRUE)
          ELSE /\ transcripts' = [transcripts EXCEPT ![m] =
                    TranscriptRow(j, jobs[j].redaction, jobs[j].transcription_result)]
               /\ jobs' = [jobs EXCEPT ![j].pc = "embed", ![j].log = Append1(j, "store")]
               /\ UNCHANGED <<meetings, tasks, uploadTx>>
    /\ UNCHANGED <<apiVars, calcVars>>

\* embedding_service.get_embedding + update_embedding, then 4. status
\* Extracting, progress 70; this commit is the one that commits the transcript.
EmbedTranscript(j, ok) ==
    /\ jobs[j].pc = "embed"
    /\ IF ok
       THEN /\ RowFree(jobs[j].meeting)
            /\ meetings' = [meetings EXCEPT ![jobs[j].meeting] =
                    UpdateStatus(@, "extracting", "Extracting action items...", 70, None)]
            /\ transcripts' = CommitRows(
                    [transcripts EXCEPT ![jobs[j].meeting].embedded = TRUE], j)
            /\ tasks' = CommitRows(tasks, j)
            /\ jobs' = [jobs EXCEPT ![j].pc = "extract",
                            ![j].log = Append1(j, "embed") \o <<"status:70">>]
            /\ UNCHANGED uploadTx
       ELSE Raise(j, "capability", "Embedding generation failed", FALSE)
    /\ UNCHANGED <<apiVars, calcVars>>

\* extraction_service.extract_tasks (n tasks), then 5. status Processing, 85.
ExtractTasks(j, ok, n) ==
    /\ jobs[j].pc = "extract"
    /\ IF ok
       THEN /\ RowFree(jobs[j].meeting)
            /\ CommitStatus(j, "processing", "Processing extracted tasks...", 85, None)
            /\ jobs' = [jobs EXCEPT ![j].pc = "create", ![j].extracted = n,
                            ![j].extractor_input = jobs[j].redaction.redacted_text,
                            ![j].log = Append1(j, "extract") \o <<"status:85">>]
            /\ UNCHANGED uploadTx
       ELSE /\ n = 0
            /\ Raise(j, "capability", "Failed to extract tasks", FALSE)
    /\ UNCHANGED <<apiVars, calcVars>>

FreeTasks == {t \in TaskIds : ~tasks[t].exists}

\* the loop of task_repo.create over the extracted tasks (INSERT + flush each);
\* ok = FALSE: the database rejects a row (a title longer than the column).
CreateTasks(j, ok) ==
    /\ jobs[j].pc = "create"
    /\ IF ok /\ meetings[jobs[j].meeting].exists
       THEN \E new \in SUBSET FreeTasks :
            /\ Cardinality(new) = jobs[j].extracted
            /\ tasks' = [t \in TaskIds |->
                    IF t \in new
                    THEN [NoTask EXCEPT !.exists = TRUE, !.tx = j,
                                        !.meeting_id = jobs[j].meeting, !.status = "draft"]
                    ELSE tasks[t]]
            /\ jobs' = [jobs EXCEPT ![j].pc = "dedup", ![j].created = new,
                            ![j].log = Append1(j, "create")]
            /\ UNCHANGED <<meetings, transcripts, uploadTx>>
       ELSE /\ jobs[j].extracted > 0 \/ ~ok
            /\ Raise(j, "dberror", "DBAPIError", TRUE)
    /\ UNCHANGED <<apiVars, calcVars>>

\* dedup_service.bulk_generate_embeddings (raises when the provider fails),
\* then deduplicate_tasks: per created task the similarity search runs over
\* the rows this session sees (committed ones and its own), within the user;
\* a failing search is absorbed and leaves the task unmarked (pick[t] = 0).
\* The embeddings of all created tasks are flushed before the first search,
\* so the task itself and its siblings are among the rows searched.
Visible(j, t) == tasks[t].exists /\ tasks[t].tx \in {0, j}

DedupCandidates(j, t) ==
    {c \in TaskIds : /\ Visible(j, c)
                     /\ (c \in jobs[j].created \/ tasks[c].embedding)
                     /\ meetings[tasks[c].meeting_id].exists
                     /\ UserOf(tasks[c].meeting_id) = UserOf(jobs[j].meeting)}

Deduplicate(j, embOk) ==
    /\ jobs[j].pc = "dedup"
    /\ IF embOk
       THEN \E pick \in [jobs[j].created -> TaskIds \cup {0}] :
            /\ \A t \in jobs[j].created : pick[t] \in DedupCandidates(j, t) \cup {0}
            /\ tasks' = [t \in TaskIds |->
                    IF t \in jobs[j].created
                    THEN [tasks[t] EXCEPT
                            !.embedding = TRUE,
                            !.is_duplicate = (pick[t] # 0) \/ @,
                            !.duplicate_of_id = IF pick[t] # 0 THEN pick[t] ELSE @]
                    ELSE tasks[t]]
            /\ jobs' = [jobs EXCEPT ![j].pc = "finalize", ![j].log = Append1(j, "dedup")]
            /\ UNCHANGED <<meetings, transcripts, uploadTx>>
       ELSE /\ jobs[j].created # {}
            /\ Raise(j, "capability", "embeddings API error", FALSE)
    /\ UNCHANGED <<apiVars, calcVars>>

\* 6. Finalize: status Completed, progress 100, commit; the job returns.
Finalize(j) ==
    /\ jobs[j].pc = "finalize"
    /\ RowFree(jobs[j].meeting)
    /\ CommitStatus(j, "completed", "Processing complete!", 100, None)
    /\ jobs' = [jobs EXCEPT ![j] = EndRun(j, "done", jobs[j].retries)]
    /\ UNCHANGED uploadTx
    /\ UNCHANGED <<apiVars, calcVars>>

\* A handler that rolls the session back before it records the failure.
HandlerBodyRollsBack(j) ==
    /\ RowFree(jobs[j].meeting)
    /\ meetings' = [meetings EXCEPT ![jobs[j].meeting] =
            UpdateStatus(@, "failed", None, NoProgress, jobs[j].error)]
    /\ transcripts' = RollbackRows(transcripts, j, NoTranscript)
    /\ tasks' = RollbackRows(tasks, j, NoTask)
    /\ jobs' = [jobs EXCEPT ![j] =
           IF jobs[j].retries < MaxRetries
           THEN Retry(j)
           ELSE EndRun(j, "exhausted", jobs[j].retries)]

\* except Exception: update_status(FAILED, error_message=str(e)), commit, then
\* task.retry (max_retries = 3).  With the session left unusable by a failed
\* flush, update_status itself raises: nothing is committed, the session is
\* closed and the job ends with that error, without a retry.
HandlerBody(j) ==
    IF jobs[j].sessOk
    THEN /\ RowFree(jobs[j].meeting)
         /\ CommitStatus(j, "failed", None, NoProgress, jobs[j].error)
         /\ jobs' = [jobs EXCEPT ![j] =
                IF jobs[j].retries < MaxRetries
                THEN Retry(j)
                ELSE EndRun(j, "exhausted", jobs[j].retries)]
    ELSE /\ jobs' = [jobs EXCEPT ![j] = EndRun(j, "crashed", jobs[j].retries)]
         /\ transcripts' = RollbackRows(transcripts, j, NoTranscript)
         /\ tasks' = RollbackRows(tasks, j, NoTask)
         /\ UNCHANGED meetings

Handler(j) ==
    /\ jobs[j].pc = "handler"
    /\ HandlerBody(j)
    /\ UNCHANGED uploadTx
    /\ UNCHANGED <<apiVars, calcVars>>

(* ---- the pipeline specification ---------------------------------------- *)
Next ==
    \/ \E u \in Users : CreateMeeting(u)
    \/ \E m \in MeetingIds : UploadAudio(m)
    \/ \E m \in MeetingIds : UploadCommit(m)
    \/ \E j \in JobIds : JobLoad(j)
    \/ \E j \in JobIds : JobBegin(j)
    \/ \E j \in JobIds, ok \in BOOLEAN : Normalize(j, ok)
    \/ \E j \in JobIds, ok \in BOOLEAN : Transcribe(j, ok)
    \/ \E j \in JobIds, ok \in BOOLEAN : Redact(j, ok)
    \/ \E j \in JobIds : StoreTranscript(j)
    \/ \E j \in JobIds, ok \in BOOLEAN : EmbedTranscript(j, ok)
    \/ \E j \in JobIds, ok \in BOOLEAN, n \in 0..MaxExtract : ExtractTasks(j, ok, n)
    \/ \E j \in JobIds, ok \in BOOLEAN : CreateTasks(j, ok)
    \/ \E j \in JobIds, ok \in BOOLEAN : Deduplicate(j, ok)
    \/ \E j \in JobIds : Finalize(j)
    \/ \E j \in JobIds : Handler(j)

Spec == Init /\ [][Next]_vars

\* The pipeline together with upload requests that fail.
NextUpload ==
    \/ Next
    \/ \E m \in MeetingIds : UploadAudioFails(m)
    \/ \E m \in MeetingIds : UploadRollback(m)

SpecUpload == Init /\ [][NextUpload]_vars

(* ---- API: integrations --------------------------------------------------- *)
pipeVars == <<meetings, transcripts, tasks, uploadTx, jobs>>

\* What a session other than the inserting one can read.
IntegrationVisible(i) == integrations[i].exists /\ integrations[i].committed

\* IntegrationRepository.get_user_integration_by_type: the rows the SELECT
\* (user_id, integration_type, is_active == True) returns.
ActiveOfType(u, type) ==
    {i \in IntegrationIds : /\ IntegrationVisible(i)
                            /\ integrations[i].user_id = u
                            /\ integrations[i].integration_type = type
                            /\ integrations[i].is_active}

\* POST /integrations, up to the response.  scalar_one_or_none raises
\* MultipleResultsFound on more than one row (500), an existing row is a 409,
\* otherwise the new row is flushed; get_db commits after the response.
CreateIntegration(c, type) ==
    /\ IF Cardinality(ActiveOfType(c, type)) > 1
       THEN /\ response' = Respond(c, 500, {})
            /\ UNCHANGED integrations
       ELSE IF ActiveOfType(c, type) # {}
       THEN /\ response' = Respond(c, 409, {})
            /\ UNCHANGED integrations
       ELSE \E i \in IntegrationIds :
            /\ ~integrations[i].exists
            /\ \A k \in IntegrationIds : k < i => integrations[k].exists
            /\ integrations' = [integrations EXCEPT ![i] = NewIntegration(c, type)]
            /\ response' = Respond(c, 201, {<<"integration", i>>})
    /\ UNCHANGED <<pipeVars, connections, syncJobs>>
    /\ UNCHANGED calcVars

\* get_db: session.commit() of a create request.
CreateIntegrationCommit(i) ==
    /\ integrations[i].exists
    /\ ~integrations[i].committed
    /\ integrations' = [integrations EXCEPT ![i].committed = TRUE]
    /\ UNCHANGED <<pipeVars, connections, syncJobs, response>>
    /\ UNCHANGED calcVars

\* GET /integrations/{id}
GetIntegration(c, i) ==
    /\ response' = IF IntegrationVisible(i) /\ integrations[i].user_id = c
                   THEN Respond(c, 200, {<<"integration", i>>})
                   ELSE Respond(c, 404, {})
    /\ UNCHANGED <<pipeVars, integrations, connections, syncJobs>>
    /\ UNCHANGED calcVars

\* PATCH /integrations/{id} with is_active in the body: the owner's row takes
\* the value, whatever other integrations of that type the user has.
UpdateIntegration(c, i, active) ==
    /\ IF IntegrationVisible(i) /\ integrations[i].user_id = c
       THEN /\ integrations' = [integrations EXCEPT ![i].is_active = active]
            /\ response' = Respond(c, 200, {<<"integration", i>>})
       ELSE /\ response' = Respond(c, 404, {})
            /\ UNCHANGED integrations
    /\ UNCHANGED <<pipeVars, connections, syncJobs>>
    /\ UNCHANGED calcVars

\* DELETE /integrations/{id}
DeleteIntegration(c, i) ==
    /\ IF IntegrationVisible(i) /\ integrations[i].user_id = c
       THEN /\ integrations' = [integrations EXCEPT ![i] = NoIntegration]
            /\ response' = Respond(c, 204, {})
       ELSE /\ response' = Respond(c, 404, {})
            /\ UNCHANGED integrations
    /\ UNCHANGED <<pipeVars, connections, syncJobs>>
    /\ UNCHANGED calcVars

(* ---- API: meetings, transcripts and tasks by id -------------------------- *)
accessFrame == <<uploadTx, jobs>>

\* The user a task belongs to: the owner of its meeting.
TaskOwner(t) == meetings[tasks[t].meeting_id].user_id

\* GET /meetings/{id}
GetMeeting(c, m) ==
    /\ response' = IF ~meetings[m].exists THEN Respond(c, 404, {})
                   ELSE IF meetings[m].user_id # c THEN Respond(c, 403, {})
                   ELSE Respond(c, 200, {<<"meeting", m>>})
    /\ UNCHANGED <<pipeVars, integrations, connections, syncJobs>>
    /\ UNCHANGED calcVars

\* PATCH /meetings/{id}
UpdateMeeting(c, m) ==
    /\ IF ~meetings[m].exists
       THEN response' = Respond(c, 404, {}) /\ UNCHANGED meetings
       ELSE IF meetings[m].user_id # c
       THEN response' = Respond(c, 403, {}) /\ UNCHANGED meetings
       ELSE /\ meetings' = [meetings EXCEPT ![m].title = "edited"]
            /\ response' = Respond(c, 200, {<<"meeting", m>>})
    /\ UNCHANGED <<transcripts, tasks, accessFrame, integrations, connections, syncJobs>>
    /\ UNCHANGED calcVars

\* The meeting row is not locked by another transaction: no uncommitted
\* update of it (an upload request) and no uncommitted row that references it
\* (the foreign key of an inserted transcript or task locks the meeting row).
MeetingUnlocked(m) ==
    /\ RowFree(m)
    /\ ~(transcripts[m].exists /\ transcripts[m].tx # 0)
    /\ \A t \in TaskIds : ~(tasks[t].exists /\ tasks[t].meeting_id = m /\ tasks[t].tx # 0)

\* A delete that removes the meeting row alone.
DeleteCascadeNone(m) ==
    /\ MeetingUnlocked(m)
    /\ meetings' = [meetings EXCEPT ![m] = NoMeeting]
    /\ UNCHANGED <<transcripts, tasks>>

\* MeetingRepository.delete: session.delete + flush, committed by get_db.  The
\* DELETE waits for the row's locks; the transcript (with its segments) and
\* the tasks go with the meeting (cascade="all, delete-orphan", ON DELETE
\* CASCADE).
DeleteCascade(m) ==
    /\ MeetingUnlocked(m)
    /\ meetings' = [meetings EXCEPT ![m] = NoMeeting]
    /\ transcripts' = [transcripts EXCEPT ![m] = NoTranscript]
    /\ tasks' = [t \in TaskIds |->
                    IF tasks[t].exists /\ tasks[t].meeting_id = m
                    THEN NoTask ELSE tasks[t]]

\* DELETE /meetings/{id}
DeleteMeeting(c, m) ==
    /\ IF ~meetings[m].exists
       THEN response' = Respond(c, 404, {}) /\ UNCHANGED <<meetings, transcripts, tasks>>
       ELSE IF meetings[m].user_id # c
       THEN response' = Respond(c, 403, {}) /\ UNCHANGED <<meetings, transcripts, tasks>>
       ELSE /\ DeleteCascade(m)
            /\ response' = Respond(c, 204, {})
    /\ UNCHANGED <<accessFrame, integrations, connections, syncJobs>>
    /\ UNCHANGED calcVars

\* GET /transcripts/meeting/{id}
GetMeetingTranscript(c, m) ==
    /\ response' = IF ~meetings[m].exists THEN Respond(c, 404, {})
                   ELSE IF meetings[m].user_id # c THEN Respond(c, 403, {})
                   ELSE IF ~(transcripts[m].exists /\ transcripts[m].tx = 0)
                   THEN Respond(c, 404, {})
                   ELSE Respond(c, 200, {<<"transcript", m>>})
    /\ UNCHANGED <<pipeVars, integrations, connections, syncJobs>>
    /\ UNCHANGED calcVars

TaskSeen(t) == tasks[t].exists /\ tasks[t].tx = 0

\* GET /tasks/{id}
GetTask(c, t) ==
    /\ response' = IF ~TaskSeen(t) THEN Respond(c, 404, {})
                   ELSE IF TaskOwner(t) # c THEN Respond(c, 403, {})
                   ELSE Respond(c, 200, {<<"task", t>>})
    /\ UNCHANGED <<pipeVars, integrations, connections, syncJobs>>
    /\ UNCHANGED calcVars

\* PATCH /tasks/{id} with a status in the body
UpdateTask(c, t, st) ==
    /\ IF ~TaskSeen(t)
       THEN response' = Respond(c, 404, {}) /\ UNCHANGED tasks
       ELSE IF TaskOwner(t) # c
       THEN response' = Respond(c, 403, {}) /\ UNCHANGED tasks
       ELSE /\ tasks' = [tasks EXCEPT ![t].status = st]
            /\ response' = Respond(c, 200, {<<"task", t>>})
    /\ UNCHANGED <<meetings, transcripts, accessFrame, integrations, connections, syncJobs>>
    /\ UNCHANGED calcVars

\* DELETE /tasks/{id}
DeleteTask(c, t) ==
    /\ IF ~TaskSeen(t)
       THEN response' = Respond(c, 404, {}) /\ UNCHANGED tasks
       ELSE IF TaskOwner(t) # c
       THEN response' = Respond(c, 403, {}) /\ UNCHANGED tasks
       ELSE /\ tasks' = [tasks EXCEPT ![t] = NoTask]
            /\ response' = Respond(c, 204, {})
    /\ UNCHANGED <<meetings, transcripts, accessFrame, integrations, connections, syncJobs>>
    /\ UNCHANGED calcVars

\* TaskRepository.bulk_update_status: every row whose id is in task_ids.
BulkUpdateStatus(ids, st) ==
    [t \in TaskIds |-> IF t \in ids /\ TaskSeen(t)
                       THEN [tasks[t] EXCEPT !.status = st] ELSE tasks[t]]

\* POST /tasks/bulk-action: approve, reject or delete the tasks named in
\* task_ids; the handler looks at the ids only.
BulkTaskAction(c, ids, action) ==
    /\ IF action = "approve"
       THEN tasks' = BulkUpdateStatus(ids, "pending") /\ response' = Respond(c, 200, {})
       ELSE IF action = "reject"
       THEN tasks' = BulkUpdateStatus(ids, "rejected") /\ response' = Respond(c, 200, {})
       ELSE IF action = "delete"
       THEN /\ tasks' = [t \in TaskIds |-> IF t \in ids /\ TaskSeen(t)
                                           THEN NoTask ELSE tasks[t]]
            /\ response' = Respond(c, 200, {})
       ELSE response' = Respond(c, 400, {}) /\ UNCHANGED tasks
    /\ UNCHANGED <<meetings, transcripts, accessFrame, integrations, connections, syncJobs>>
    /\ UNCHANGED calcVars

FreeSyncJobs == {s \in SyncJobIds : syncJobs[s].pc = "free"}

\* The k-th (from 0) free slot of the sync queue.
FreeSlot(k) ==
    CHOOSE s \in FreeSyncJobs : Cardinality({x \in FreeSyncJobs : x < s}) = k

\* POST /tasks/sync: the integration must be the caller's and active; then
\* sync_task_to_external.delay for every id of task_ids.
SyncTasks(c, i, ids) ==
    /\ IF ~IntegrationVisible(i) \/ integrations[i].user_id # c
       THEN response' = Respond(c, 404, {}) /\ UNCHANGED syncJobs
       ELSE IF ~integrations[i].is_active
       THEN response' = Respond(c, 400, {}) /\ UNCHANGED syncJobs
       ELSE /\ Cardinality(ids) <= Cardinality(FreeSyncJobs)
            /\ syncJobs' = [s \in SyncJobIds |->
                    IF \E t \in ids : s = FreeSlot(Cardinality({x \in ids : x < t}))
                    THEN [NoSyncJob EXCEPT
                            !.pc = "queued", !.integration = i,
                            !.task = CHOOSE t \in ids :
                                        s = FreeSlot(Cardinality({x \in ids : x < t}))]
                    ELSE syncJobs[s]]
            /\ response' = Respond(c, 200, {})
    /\ UNCHANGED <<pipeVars, integrations, connections>>
    /\ UNCHANGED calcVars

\* WS /ws/meetings/{id}?token=...: a valid token is all it takes;
\* ConnectionManager.connect registers the socket for the meeting.
MeetingWebsocket(c, m) ==
    /\ connections' = connections \cup {<<c, m>>}
    /\ UNCHANGED <<pipeVars, integrations, syncJobs, response>>
    /\ UNCHANGED calcVars

(* ---- the meeting deletion specification ----------------------------------- *)
\* Every meeting id belongs to a created meeting of user u1; ids are UUIDs,
\* so the id of a deleted meeting is never given to a new one.
DeleteInit ==
    /\ meetings = [m \in MeetingIds |-> NewMeeting("u1")]
    /\ transcripts = [m \in MeetingIds |-> NoTranscript]
    /\ tasks = [t \in TaskIds |-> NoTask]
    /\ uploadTx = [m \in MeetingIds |-> "none"]
    /\ jobs = [j \in JobIds |-> NoJob]
    /\ integrations = [i \in IntegrationIds |-> NoIntegration]
    /\ connections = {}
    /\ syncJobs = [s \in SyncJobIds |-> NoSyncJob]
    /\ response = NoResponse
    /\ CalcIdle

NextDelete ==
    \/ \E m \in MeetingIds : UploadAudio(m)
    \/ \E m \in MeetingIds : UploadCommit(m)
    \/ \E j \in JobIds : JobLoad(j)
    \/ \E j \in JobIds : JobBegin(j)
    \/ \E j \in JobIds, ok \in BOOLEAN : Normalize(j, ok)
    \/ \E j \in JobIds, ok \in BOOLEAN : Transcribe(j, ok)
    \/ \E j \in JobIds, ok \in BOOLEAN : Redact(j, ok)
    \/ \E j \in JobIds : StoreTranscript(j)
    \/ \E j \in JobIds, ok \in BOOLEAN : EmbedTranscript(j, ok)
    \/ \E j \in JobIds, ok \in BOOLEAN, n \in 0..MaxExtract : ExtractTasks(j, ok, n)
    \/ \E j \in JobIds, ok \in BOOLEAN : CreateTasks(j, ok)
    \/ \E j \in JobIds, ok \in BOOLEAN : Deduplicate(j, ok)
    \/ \E j \in JobIds : Finalize(j)
    \/ \E j \in JobIds : Handler(j)
    \/ \E m \in MeetingIds : DeleteMeeting("u1", m)
    \/ \E m \in MeetingIds : GetMeeting("u1", m)

SpecDelete == DeleteInit /\ [][NextDelete]_vars

(* ---- the access specification -------------------------------------------- *)
\* A database after some use: every meeting processed to completion with its
\* transcript and draft tasks, every user's integrations created and active.
World(owner, user, type) ==
    /\ meetings = [m \in MeetingIds |->
            [NewMeeting(owner[m]) EXCEPT
                !.status = "completed", !.status_message = "Processing complete!",
                !.processing_progress = 100, !.audio_file_path = "path"]]
    /\ transcripts = [m \in MeetingIds |->
            [TranscriptRow(0, RedactTranscript(ProviderText), TranscriptionResult)
                EXCEPT !.embedded = TRUE]]
    /\ \E of \in [TaskIds -> MeetingIds] :
         tasks = [t \in TaskIds |->
            [NoTask EXCEPT !.exists = TRUE, !.meeting_id = of[t], !.status = "draft",
                           !.embedding = TRUE]]
    /\ integrations = [i \in IntegrationIds |->
            [NewIntegration(user[i], type[i]) EXCEPT !.committed = TRUE]]
    /\ uploadTx = [m \in MeetingIds |-> "none"]
    /\ jobs = [j \in JobIds |-> NoJob]
    /\ connections = {}
    /\ syncJobs = [s \in SyncJobIds |-> NoSyncJob]
    /\ response = NoResponse
    /\ CalcIdle

\* The meetings of either user; an Asana integration of one user, a Trello
\* integration of the other.
Populated ==
    \E owner \in [MeetingIds -> Users] :
        World(owner,
              [i \in IntegrationIds |-> IF i % 2 = 1 THEN "u1" ELSE "u2"],
              [i \in IntegrationIds |-> IF i % 2 = 1 THEN "asana" ELSE "trello"])

TaskStatuses == {"draft", "pending", "rejected"}
BulkActions == {"approve", "reject", "delete", "sync"}

NextAccess ==
    \/ \E c \in Users, m \in MeetingIds : GetMeeting(c, m)
    \/ \E c \in Users, m \in MeetingIds : UpdateMeeting(c, m)
    \/ \E c \in Users, m \in MeetingIds : DeleteMeeting(c, m)
    \/ \E c \in Users, m \in MeetingIds : GetMeetingTranscript(c, m)
    \/ \E c \in Users, t \in TaskIds : GetTask(c, t)
    \/ \E c \in Users, t \in TaskIds, st \in TaskStatuses : UpdateTask(c, t, st)
    \/ \E c \in Users, t \in TaskIds : DeleteTask(c, t)
    \/ \E c \in Users, ids \in (SUBSET TaskIds) \ {{}}, action \in BulkActions :
            BulkTaskAction(c, ids, action)
    \/ \E c \in Users, i \in IntegrationIds, ids \in (SUBSET TaskIds) \ {{}} :
            SyncTasks(c, i, ids)
    \/ \E c \in Users, m \in MeetingIds : MeetingWebsocket(c, m)
    \/ \E c \in Users, i \in IntegrationIds : GetIntegration(c, i)

SpecAccess == Populated /\ [][NextAccess]_vars

(* ---- worker: sync_task_to_external ---------------------------------------- *)
\* IntegrationFactory._adapters
SupportedTypes == {"asana", "trello"}

\* TaskRepository.update_sync_info
UpdateSyncInfo(row, externalId, service) ==
    IF ~row.exists THEN row
    ELSE [row EXCEPT !.external_id = IF externalId # None THEN externalId ELSE @,
                     !.external_service = service,
                     !.synced_at = "now",
                     !.status = "synced"]

\* IntegrationRepository.update_sync_timestamp
UpdateSyncTimestamp(row) ==
    IF ~row.exists THEN row ELSE [row EXCEPT !.last_synced_at = "now"]

\* IntegrationRepository.record_error: error_count + 1 is computed from the
\* object the session holds, which shows the count as it was loaded.
RecordError(row, seen, message) ==
    IF ~row.exists THEN row
    ELSE [row EXCEPT !.last_error = IF message # None THEN message ELSE @,
                     !.error_count = seen + 1]

\* An update that leaves the stored error_count as it is.
ClearErrorKeepsCount(row) ==
    row

\* IntegrationRepository.clear_error: {"last_error": None, "error_count": 0}
\* through BaseRepository.update, which skips the None.
ClearError(row) ==
    IF ~row.exists THEN row ELSE [row EXCEPT !.error_count = 0]

\* The job is over for this attempt: celery_task.retry re-queues it while
\* request.retries < max_retries, and raises the exception for good after.
SyncRetry(job) ==
    IF job.retries < MaxRetries
    THEN [job EXCEPT !.pc = "queued", !.retries = @ + 1,
                     !.countdown = Countdown(job.retries)]
    ELSE [job EXCEPT !.pc = "exhausted"]

\* The worker takes the job: new session, task and integration loaded.
SyncLoad(s) ==
    /\ syncJobs[s].pc = "queued"
    /\ LET t == syncJobs[s].task
           i == syncJobs[s].integration
       IN  syncJobs' = [syncJobs EXCEPT ![s] =
                IF TaskSeen(t) /\ IntegrationVisible(i)
                THEN [@ EXCEPT !.pc = "loaded", !.seen = integrations[i].error_count]
                ELSE [@ EXCEPT !.pc = "notfound"]]
    /\ UNCHANGED <<pipeVars, integrations, connections, response>>
    /\ UNCHANGED calcVars

\* A sync attempt whose failure also takes back what other syncs delivered
\* through the same integration.
SyncAttemptRevertsOthers(s, outcome) ==
    /\ syncJobs[s].pc = "loaded"
    /\ LET t == syncJobs[s].task
           i == syncJobs[s].integration
           job == [syncJobs[s] EXCEPT !.attempts = Append(@, outcome)]
       IN  IF integrations[i].integration_type \notin SupportedTypes
           THEN /\ outcome = "raise"
                /\ syncJobs' = [syncJobs EXCEPT ![s] = SyncRetry(job)]
                /\ UNCHANGED <<tasks, integrations>>
           ELSE IF outcome = "ok"
           THEN /\ tasks' = [tasks EXCEPT ![t] =
                        UpdateSyncInfo(@, "ext", integrations[i].integration_type)]
                /\ integrations' = [integrations EXCEPT ![i] =
                        ClearError(UpdateSyncTimestamp(@))]
                /\ syncJobs' = [syncJobs EXCEPT ![s] = [job EXCEPT !.pc = "done"]]
           ELSE /\ outcome = "fail"
                /\ integrations' = [integrations EXCEPT ![i] =
                        RecordError(@, syncJobs[s].seen, "error")]
                /\ syncJobs' = [syncJobs EXCEPT ![s] = SyncRetry(job)]
                /\ tasks' = [k \in TaskIds |->
                        IF tasks[k].external_service = integrations[i].integration_type
                        THEN [tasks[k] EXCEPT !.status = "pending", !.external_id = None,
                                              !.external_service = None, !.synced_at = None]
                        ELSE tasks[k]]
    /\ UNCHANGED <<meetings, transcripts, uploadTx, jobs, connections, response>>
    /\ UNCHANGED calcVars

\* IntegrationFactory.create, adapter.create_task and what follows its result.
\* outcome "ok": the task takes the external ids, the integration the sync
\* timestamp and a cleared error, committed together.  outcome "fail": the
\* adapter returned success = False: record_error, commit, retry.  outcome
\* "raise": no adapter for the integration type; retry, nothing recorded.
SyncAttempt(s, outcome) ==
    /\ syncJobs[s].pc = "loaded"
    /\ LET t == syncJobs[s].task
           i == syncJobs[s].integration
           job == [syncJobs[s] EXCEPT !.attempts = Append(@, outcome)]
       IN  IF integrations[i].integration_type \notin SupportedTypes
           THEN /\ outcome = "raise"
                /\ syncJobs' = [syncJobs EXCEPT ![s] = SyncRetry(job)]
                /\ UNCHANGED <<tasks, integrations>>
           ELSE IF outcome = "ok"
           THEN /\ tasks' = [tasks EXCEPT ![t] =
                        UpdateSyncInfo(@, "ext", integrations[i].integration_type)]
                /\ integrations' = [integrations EXCEPT ![i] =
                        ClearError(UpdateSyncTimestamp(@))]
                /\ syncJobs' = [syncJobs EXCEPT ![s] = [job EXCEPT !.pc = "done"]]
           ELSE /\ outcome = "fail"
                /\ integrations' = [integrations EXCEPT ![i] =
                        RecordError(@, syncJobs[s].seen, "error")]
                /\ syncJobs' = [syncJobs EXCEPT ![s] = SyncRetry(job)]
                /\ UNCHANGED tasks
    /\ UNCHANGED <<meetings, transcripts, uploadTx, jobs, connections, response>>
    /\ UNCHANGED calcVars

(* ---- the sync specification ------------------------------------------------ *)
\* One user's meeting, tasks and active integrations of distinct types.
SyncInit ==
    \E type \in [IntegrationIds -> IntegrationTypes] :
        /\ \A i, k \in IntegrationIds : type[i] = type[k] => i = k
        /\ World([m \in MeetingIds |-> "u1"], [i \in IntegrationIds |-> "u1"], type)

NextSync ==
    \/ \E i \in IntegrationIds, t \in TaskIds : SyncTasks("u1", i, {t})
    \/ \E s \in SyncJobIds : SyncLoad(s)
    \/ \E s \in SyncJobIds, outcome \in {"ok", "fail", "raise"} : SyncAttempt(s, outcome)

SpecSync == SyncInit /\ [][NextSync]_vars

(* ---- API: integration connection ------------------------------------------- *)
\* POST /integrations/{id}/test.  outcome "ok": test_connection returned True,
\* clear_error.  "fail": it returned False, record_error("Connection test
\* failed").  "raise": IntegrationFactory.create (no adapter for the type) or
\* the adapter raised, record_error(str(e)).  The response is 200 each time.
TestIntegration(c, i, outcome) ==
    /\ IF ~(IntegrationVisible(i) /\ integrations[i].user_id = c)
       THEN /\ outcome = "ok"
            /\ response' = Respond(c, 404, {})
            /\ UNCHANGED integrations
       ELSE /\ integrations[i].integration_type \notin SupportedTypes => outcome = "raise"
            /\ outcome # "ok" => integrations[i].error_count < MaxErrorCount
            /\ integrations' = [integrations EXCEPT ![i] =
                    CASE outcome = "ok" -> ClearError(@)
                      [] outcome = "fail" ->
                            RecordError(@, integrations[i].error_count, "Connection test failed")
                      [] OTHER -> RecordError(@, integrations[i].error_count, "error")]
            /\ response' = Respond(c, 200, {})
    /\ UNCHANGED <<pipeVars, connections, syncJobs>>
    /\ UNCHANGED calcVars

\* GET /integrations/{id}/workspaces and /projects/{workspace_id}: the
\* adapter's list, or 502 when the factory or the adapter raises.
GetWorkspaces(c, i, ok) ==
    /\ response' =
         IF ~(IntegrationVisible(i) /\ integrations[i].user_id = c)
         THEN Respond(c, 404, {})
         ELSE IF ok /\ integrations[i].integration_type \in SupportedTypes
         THEN Respond(c, 200, {<<"integration", i>>})
         ELSE Respond(c, 502, {})
    /\ UNCHANGED <<pipeVars, integrations, connections, syncJobs>>
    /\ UNCHANGED calcVars

(* ---- the integration requests specification ------------------------------ *)
NextIntegration ==
    \/ \E c \in Users, type \in IntegrationTypes : CreateIntegration(c, type)
    \/ \E i \in IntegrationIds : CreateIntegrationCommit(i)
    \/ \E c \in Users, i \in IntegrationIds : GetIntegration(c, i)
    \/ \E c \in Users, i \in IntegrationIds, active \in BOOLEAN :
            UpdateIntegration(c, i, active)
    \/ \E c \in Users, i \in IntegrationIds : DeleteIntegration(c, i)
    \/ \E c \in Users, i \in IntegrationIds, outcome \in {"ok", "fail", "raise"} :
            TestIntegration(c, i, outcome)
    \/ \E c \in Users, i \in IntegrationIds, ok \in BOOLEAN : GetWorkspaces(c, i, ok)

SpecIntegration == Init /\ [][NextIntegration]_vars

(* ---- service: duplicate search ------------------------------------------- *)
\* Similarities and thresholds are in hundredths: 85 is 0.85, 100 is 1.0.
StoredIds == 1..NumStored

\* What a stored task is to one query: whose meeting it belongs to, whether
\* its embedding is set, and its cosine similarity to the query's embedding.
StoredKinds ==
    {[user |-> "u2", embedded |-> TRUE, similarity |-> 100],
     [user |-> "u1", embedded |-> FALSE, similarity |-> 100],
     [user |-> "u1", embedded |-> TRUE, similarity |-> 50],
     [user |-> "u1", embedded |-> TRUE, similarity |-> 85],
     [user |-> "u1", embedded |-> TRUE, similarity |-> 90],
     [user |-> "u1", embedded |-> TRUE, similarity |-> 100]}

\* The threshold argument: <<>> when the caller leaves it out, <<t>> otherwise.
GivenThresholds == {<<>>, <<0>>, <<50>>, <<85>>, <<100>>}

\* WHERE m.user_id = :user_id AND t.embedding IS NOT NULL
\*   AND 1 - (t.embedding <=> :embedding) > :threshold
Matches(rows, user, threshold) ==
    {i \in DOMAIN rows : /\ rows[i].user = user
                         /\ rows[i].embedded
                         /\ rows[i].similarity > threshold}

MaxSimilarity(rows, ids) ==
    CHOOSE x \in {rows[i].similarity : i \in ids} :
        \A i \in ids : rows[i].similarity <= x

\* ORDER BY similarity DESC LIMIT :limit over the rows ids: every list the
\* database may return; rows of equal similarity come in any order.
RECURSIVE Ranked(_, _, _)
Ranked(rows, ids, limit) ==
    IF limit = 0 \/ ids = {} THEN {<<>>}
    ELSE UNION {{<<i>> \o rest : rest \in Ranked(rows, ids \ {i}, limit - 1)} :
                    i \in {k \in ids : rows[k].similarity = MaxSimilarity(rows, ids)}}

\* TaskRepository.find_similar_tasks
FindSimilarTasks(rows, user, threshold, limit) ==
    Ranked(rows, Matches(rows, user, threshold), limit)

\* threshold = threshold or self.SIMILARITY_THRESHOLD
EffectiveThreshold(given) ==
    IF given = <<>> \/ given[1] = 0 THEN SimilarityThreshold ELSE given[1]

\* DeduplicationService.check_for_duplicates: embed the text, search with
\* limit 5; any exception (embedOk = FALSE: the embedding call raised) is
\* logged and answered with the empty list.
CheckForDuplicates(embedOk) ==
    /\ query.pc = "asked"
    /\ IF embedOk
       THEN found' \in FindSimilarTasks(corpus, query.user,
                                        EffectiveThreshold(query.threshold), SearchLimit)
       ELSE found' = <<>>
    /\ query' = [query EXCEPT !.pc = "answered", !.embedOk = embedOk]
    /\ UNCHANGED <<pipeVars, apiVars, corpus, chunking, segments, priority>>

(* ---- the duplicate search specification ------------------------------------ *)
\* Row ids carry no meaning to the query, so the stored tasks are laid out
\* along the ids in one fixed order of kinds: each multiset of kinds is one
\* initial corpus.
KindRank(k) ==
    (IF k.user = "u1" THEN 0 ELSE 1000) + (IF k.embedded THEN 0 ELSE 500) + k.similarity

SearchInit ==
    /\ meetings = [m \in MeetingIds |-> NoMeeting]
    /\ transcripts = [m \in MeetingIds |-> NoTranscript]
    /\ tasks = [t \in TaskIds |-> NoTask]
    /\ uploadTx = [m \in MeetingIds |-> "none"]
    /\ jobs = [j \in JobIds |-> NoJob]
    /\ integrations = [i \in IntegrationIds |-> NoIntegration]
    /\ connections = {}
    /\ syncJobs = [s \in SyncJobIds |-> NoSyncJob]
    /\ response = NoResponse
    /\ corpus \in {c \in [StoredIds -> StoredKinds] :
                    \A i \in StoredIds \ {NumStored} : KindRank(c[i]) <= KindRank(c[i + 1])}
    /\ \E given \in GivenThresholds :
         query = [pc |-> "asked", user |-> "u1", threshold |-> given, embedOk |-> TRUE]
    /\ found = <<>>
    /\ ChunkIdle
    /\ PriorityIdle

NextSearch ==
    \E embedOk \in BOOLEAN : CheckForDuplicates(embedOk)

SpecSearch == SearchInit /\ [][NextSearch]_vars

(* ---- service: chunked transcription ---------------------------------------- *)
\* Times are in milliseconds.  Python adds floats; a + offset is monotonic in
\* a under rounding, so the integer sums order the same way.
RecordingDurations == {300000, 600500, 601000, 1200000, 1500000}

\* What the speech-to-text provider reports for one window: a list of
\* segments, in any order and with any start and end.
SegTimes == {0, 2000, 598000}

ProviderSegments == [start_time : SegTimes, end_time : SegTimes]

WindowOutputs == UNION {[1..n -> ProviderSegments] : n \in 0..MaxSegments}

\* AudioService.get_audio_duration: int(float(ffprobe duration)), in seconds.
GetAudioDuration(ms) == ms \div 1000

\* AudioService.split_audio_into_chunks: the file itself when it is not longer
\* than one chunk, else one window per start in range(0, duration_ms,
\* chunk_duration_ms), each ending at min(start + chunk, duration).
SplitAudioIntoChunks(duration_ms) ==
    LET chunk_ms == AudioChunkDurationSeconds * 1000
        starts == {k \in 0..(duration_ms \div chunk_ms) : k * chunk_ms < duration_ms}
    IN  IF duration_ms <= chunk_ms
        THEN <<[start_ms |-> 0, end_ms |-> duration_ms]>>
        ELSE [k \in 1..Cardinality(starts) |->
                [start_ms |-> (k - 1) * chunk_ms,
                 end_ms |-> IF k * chunk_ms < duration_ms THEN k * chunk_ms
                            ELSE duration_ms]]

\* A variant that leaves the times as the provider reported them.
ShiftNone(seg, time_offset) == seg

\* seg["start_time"] += time_offset; seg["end_time"] += time_offset
Shift(seg, time_offset) ==
    [start_time |-> seg.start_time + time_offset,
     end_time |-> seg.end_time + time_offset]

\* A variant that always advances by the chunk's duration.
NextOffsetNominal(shifted, time_offset, window) ==
    time_offset + GetAudioDuration(window.end_ms - window.start_ms) * 1000

\* Update offset for next chunk: the (already shifted) end of the window's
\* last segment, or the offset plus the chunk file's duration in whole seconds.
NextOffset(shifted, time_offset, window) ==
    IF shifted # <<>>
    THEN shifted[Len(shifted)].end_time
    ELSE time_offset + GetAudioDuration(window.end_ms - window.start_ms) * 1000

\* TranscriptionService.transcribe: the recording's duration in whole seconds
\* decides between _transcribe_chunked and _transcribe_single.
TranscribeStart ==
    /\ chunking.pc = "start"
    /\ chunking' =
         IF GetAudioDuration(chunking.duration_ms) > AudioChunkDurationSeconds
         THEN [chunking EXCEPT !.pc = "chunked",
                               !.windows = SplitAudioIntoChunks(chunking.duration_ms)]
         ELSE [chunking EXCEPT !.pc = "single"]
    /\ UNCHANGED <<pipeVars, apiVars, corpus, query, found, segments, priority>>

\* _transcribe_chunked, one pass of the loop over the chunks; output is what
\* _transcribe_single returned for the chunk.  offsets and outputs record the
\* offset each window was shifted by and what the provider reported for it.
TranscribeChunk(output) ==
    /\ chunking.pc = "chunked"
    /\ LET i == Len(chunking.outputs) + 1
           shifted == [k \in 1..Len(output) |-> Shift(output[k], chunking.time_offset)]
       IN chunking' = [chunking EXCEPT
               !.pc = IF i = Len(chunking.windows) THEN "done" ELSE "chunked",
               !.all_segments = @ \o shifted,
               !.time_offset = NextOffset(shifted, chunking.time_offset, chunking.windows[i]),
               !.offsets = Append(@, chunking.time_offset),
               !.outputs = Append(@, output)]
    /\ UNCHANGED <<pipeVars, apiVars, corpus, query, found, segments, priority>>

\* _transcribe_single for a recording that is not chunked.
TranscribeSingle(output) ==
    /\ chunking.pc = "single"
    /\ chunking' = [chunking EXCEPT !.pc = "done", !.all_segments = output]
    /\ UNCHANGED <<pipeVars, apiVars, corpus, query, found, segments, priority>>

\* TranscriptRepository.create_with_segments: one row per segment, numbered
\* by enumerate().
CreateWithSegments ==
    /\ chunking.pc = "done"
    /\ segments' = {[sequence_number |-> k - 1,
                     start_time |-> chunking.all_segments[k].start_time,
                     end_time |-> chunking.all_segments[k].end_time] :
                        k \in 1..Len(chunking.all_segments)}
    /\ chunking' = [chunking EXCEPT !.pc = "stored"]
    /\ UNCHANGED <<pipeVars, apiVars, corpus, query, found, priority>>

(* ---- the chunked transcription specification ------------------------------- *)
ChunkInit ==
    /\ meetings = [m \in MeetingIds |-> NoMeeting]
    /\ transcripts = [m \in MeetingIds |-> NoTranscript]
    /\ tasks = [t \in TaskIds |-> NoTask]
    /\ uploadTx = [m \in MeetingIds |-> "none"]
    /\ jobs = [j \in JobIds |-> NoJob]
    /\ integrations = [i \in IntegrationIds |-> NoIntegration]
    /\ connections = {}
    /\ syncJobs = [s \in SyncJobIds |-> NoSyncJob]
    /\ response = NoResponse
    /\ SearchIdle
    /\ PriorityIdle
    /\ \E d \in RecordingDurations :
         chunking = [pc |-> "start", duration_ms |-> d, windows |-> <<>>,
                     time_offset |-> 0, all_segments |-> <<>>,
                     offsets |-> <<>>, outputs |-> <<>>]
    /\ segments = {}

NextChunk ==
    \/ TranscribeStart
    \/ \E output \in WindowOutputs : TranscribeChunk(output)
    \/ \E output \in WindowOutputs : TranscribeSingle(output)
    \/ CreateWithSegments

SpecChunk == ChunkInit /\ [][NextChunk]_vars

(* ---- service: task extraction, priorities ------------------------------------ *)
\* A priority string, by what lower() and strip() can tell of it: the word,
\* how it is cased, and whether whitespace stands before and after it.
PriorityWords ==
    {"high", "urgent", "critical", "low", "minor", "medium", "normal", "unknown", ""}

PriorityStrings ==
    [word : PriorityWords, casing : {"lower", "upper", "title"},
     lead : BOOLEAN, trail : BOOLEAN]

\* The string literal "word" of the source: lower case, no whitespace.
Literal(word) == [word |-> word, casing |-> "lower", lead |-> FALSE, trail |-> FALSE]

\* str.lower(); the empty word has no case.
Lower(str) == [str EXCEPT !.casing = "lower"]

\* str.strip(); whitespace around the empty word is one run of whitespace.
Strip(str) == [str EXCEPT !.lead = FALSE, !.trail = FALSE]

\* A variant that compares the lowered string as it came.
NormalizePriorityNoStrip(str) ==
    LET priority_lower == Lower(str)
    IN  IF priority_lower \in {Literal("high"), Literal("urgent"), Literal("critical")}
        THEN "High"
        ELSE IF priority_lower \in {Literal("low"), Literal("minor")}
        THEN "Low"
        ELSE "Medium"

\* TaskExtractionService._normalize_priority
NormalizePriority(str) ==
    LET priority_lower == Strip(Lower(str))
    IN  IF priority_lower \in {Literal("high"), Literal("urgent"), Literal("critical")}
        THEN "High"
        ELSE IF priority_lower \in {Literal("low"), Literal("minor")}
        THEN "Low"
        ELSE "Medium"

\* TaskExtractionService.map_priority_to_enum: mapping.get(priority.lower(),
\* TaskPriority.MEDIUM)
MapPriorityToEnum(str) ==
    LET key == Lower(str)
    IN  CASE key = Literal("high") -> "TaskPriority.HIGH"
          [] key = Literal("urgent") -> "TaskPriority.URGENT"
          [] key = Literal("medium") -> "TaskPriority.MEDIUM"
          [] key = Literal("low") -> "TaskPriority.LOW"
          [] OTHER -> "TaskPriority.MEDIUM"

\* A call of _normalize_priority.
CallNormalizePriority ==
    /\ priority.pc = "given"
    /\ priority' = [priority EXCEPT !.pc = "normalized",
                                    !.result = NormalizePriority(priority.input)]
    /\ UNCHANGED <<pipeVars, apiVars, corpus, query, found, chunking, segments>>

\* A call of map_priority_to_enum.
CallMapPriorityToEnum ==
    /\ priority.pc = "given"
    /\ priority' = [priority EXCEPT !.pc = "mapped",
                                    !.result = MapPriorityToEnum(priority.input)]
    /\ UNCHANGED <<pipeVars, apiVars, corpus, query, found, chunking, segments>>

(* ---- the priority mapping specification -------------------------------------- *)
PriorityInit ==
    /\ meetings = [m \in MeetingIds |-> NoMeeting]
    /\ transcripts = [m \in MeetingIds |-> NoTranscript]
    /\ tasks = [t \in TaskIds |-> NoTask]
    /\ uploadTx = [m \in MeetingIds |-> "none"]
    /\ jobs = [j \in JobIds |-> NoJob]
    /\ integrations = [i \in IntegrationIds |-> NoIntegration]
    /\ connections = {}
    /\ syncJobs = [s \in SyncJobIds |-> NoSyncJob]
    /\ response = NoResponse
    /\ SearchIdle
    /\ ChunkIdle
    /\ \E str \in PriorityStrings :
         priority = [pc |-> "given", input |-> str, result |-> None]

NextPriority ==
    \/ CallNormalizePriority
    \/ CallMapPriorityToEnum

SpecPriority == PriorityInit /\ [][NextPriority]_vars

(* ---- claims about the pipeline ------------------------------------------ *)
InFlight == {"processing", "transcribing", "extracting"}

\* Job j takes the step that begins a run's writes (JobBegin).
Begins(j) == jobs[j].pc = "loaded" /\ jobs'[j].pc # "loaded"

\* Job j takes the step that ends a run with an exception (Handler).
Handles(j) == jobs[j].pc = "handler" /\ jobs'[j].pc # "handler"

\* Job j takes the step that ends a run, either way.
EndsRun(j) == jobs[j].pc \in {"handler", "finalize"} /\ jobs'[j].pc # jobs[j].pc

\* C1: every committed value of processing_progress of a meeting is greater
\* than or equal to the value committed before it, over all runs on it.
C1_ProgressNonDecreasing ==
    [][\A m \in MeetingIds :
          (meetings[m].exists /\ meetings'[m].exists)
          => meetings'[m].processing_progress >= meetings[m].processing_progress]_vars

\* C2: a run started on a meeting whose persisted status is that of a run in
\* flight (processing, transcribing, extracting) is rejected: it changes no
\* persisted field of the meeting and does no phase work.
C2_InFlightStartRejected ==
    [][\A j \in JobIds :
          (Begins(j) /\ meetings[jobs[j].meeting].status \in InFlight)
          => /\ meetings'[jobs[j].meeting] = meetings[jobs[j].meeting]
             /\ jobs'[j].pc \notin {"normalize", "transcribe", "redact", "store",
                                     "embed", "extract", "create", "dedup", "finalize"}]_vars

\* C3: a run started on a completed meeting is a no-op: status, message,
\* progress, error message, transcript and tasks stay as they are.
C3_CompletedStartNoOp ==
    [][\A j \in JobIds :
          (Begins(j) /\ meetings[jobs[j].meeting].status = "completed")
          => /\ meetings'[jobs[j].meeting] = meetings[jobs[j].meeting]
             /\ transcripts' = transcripts
             /\ tasks' = tasks]_vars

\* C4: a run in which a step raised ends with the meeting committed as failed
\* and its error_message equal to the text of the exception.
C4_FailureRecorded ==
    [][\A j \in JobIds :
          Handles(j)
          => /\ meetings'[jobs[j].meeting].status = "failed"
             /\ meetings'[jobs[j].meeting].error_message = jobs[j].error]_vars

\* C5: a run on a failed meeting in which every external capability succeeds
\* (and the database rejects no task row) ends with the meeting completed.
C5_FailedMeetingResumable ==
    [][\A j \in JobIds :
          (/\ EndsRun(j)
           /\ jobs[j].startStatus = "failed"
           /\ jobs[j].cause \notin {"capability", "dberror"})
          => meetings'[jobs[j].meeting].status = "completed"]_vars

\* C6: a run that fails after it created the transcript leaves the transcript
\* committed for the meeting, and a committed transcript stays for as long as
\* the meeting exists (so it is there while the meeting is failed).
Stored(j) == \E i \in 1..Len(jobs[j].log) : jobs[j].log[i] = "store"

TranscriptCommitted(m) == transcripts[m].exists /\ transcripts[m].tx = 0

C6_TranscriptSurvivesFailure ==
    [][/\ \A j \in JobIds :
            (Handles(j) /\ Stored(j))
            => (transcripts'[jobs[j].meeting].exists /\ transcripts'[jobs[j].meeting].tx = 0)
       /\ \A m \in MeetingIds :
            (TranscriptCommitted(m) /\ meetings'[m].exists)
            => (transcripts'[m].exists /\ transcripts'[m].tx = 0)]_vars

C6_Witness ==
    \E m \in MeetingIds :
        /\ meetings[m].status = "failed"
        /\ meetings[m].error_message = "Failed to extract tasks"
        /\ TranscriptCommitted(m)

\* C7: in every run each phase's work comes after the commit of that phase's
\* status, message and progress, transcription after normalization and
\* extraction after redaction; and each logged commit is a commit: the
\* meeting row holds that progress right after the step.
Before(log, a, b) ==
    \A i \in 1..Len(log) : log[i] = b => \E k \in 1..(i - 1) : log[k] = a

PhaseOrder(log) ==
    /\ Before(log, "status:5", "normalize")
    /\ Before(log, "status:20", "transcribe")
    /\ Before(log, "normalize", "transcribe")
    /\ Before(log, "status:50", "redact")
    /\ Before(log, "transcribe", "redact")
    /\ Before(log, "status:70", "extract")
    /\ Before(log, "redact", "extract")
    /\ Before(log, "status:85", "create")
    /\ Before(log, "extract", "create")

PhaseOfPc(pc) ==
    CASE pc = "normalize" -> <<"processing", "Preparing audio file...", 5>>
      [] pc = "transcribe" -> <<"transcribing", "Transcribing audio...", 20>>
      [] pc = "redact" -> <<"processing", "Redacting sensitive information...", 50>>
      [] pc = "extract" -> <<"extracting", "Extracting action items...", 70>>
      [] pc = "create" -> <<"processing", "Processing extracted tasks...", 85>>
      [] OTHER -> <<None, None, NoProgress>>

C7_PhasesSequential ==
    /\ [](\A j \in JobIds : PhaseOrder(jobs[j].log))
    /\ [][\A j \in JobIds :
            (jobs'[j].pc # jobs[j].pc /\ PhaseOfPc(jobs'[j].pc)[3] # NoProgress)
            => LET m == jobs[j].meeting
                   ph == PhaseOfPc(jobs'[j].pc)
               IN  /\ meetings'[m].status = ph[1]
                   /\ meetings'[m].status_message = ph[2]
                   /\ meetings'[m].processing_progress = ph[3]]_vars

C7_Witness ==
    \E j \in JobIds :
        /\ jobs[j].pc = "finalize"
        /\ Len(jobs[j].log) >= 10

(* ---- claims about the integrations --------------------------------------- *)
\* C9: after any sequence and interleaving of create, update and delete
\* integration requests, every (user, integration_type) pair has at most one
\* integration with is_active = true.
C9_AtMostOneActive ==
    \A u \in Users, type \in IntegrationTypes : Cardinality(ActiveOfType(u, type)) <= 1

(* ---- claims about access -------------------------------------------------- *)
\* The owner of the row a response carries.
CarriedOwner(r) ==
    IF r[1] = "task" THEN TaskOwner(r[2])
    ELSE IF r[1] = "integration" THEN integrations[r[2]].user_id
    ELSE meetings[r[2]].user_id

\* C8: no request changes, deletes, shows, queues for sync or subscribes to a
\* meeting, task, transcript or integration of a user other than the caller.
C8_NonOwnerDenied ==
    [][/\ \A m \in MeetingIds :
            (meetings[m].exists /\ meetings'[m] # meetings[m])
            => meetings[m].user_id = response'.caller
       /\ \A m \in MeetingIds :
            (meetings[m].exists /\ transcripts'[m] # transcripts[m])
            => meetings[m].user_id = response'.caller
       /\ \A t \in TaskIds :
            (tasks[t].exists /\ tasks'[t] # tasks[t])
            => TaskOwner(t) = response'.caller
       /\ \A r \in response'.carried :
            (response' # response /\ response'.code = 200)
            => CarriedOwner(r) = response'.caller
       /\ \A s \in SyncJobIds :
            (/\ syncJobs[s].pc = "free"
             /\ syncJobs'[s].pc = "queued"
             /\ tasks[syncJobs'[s].task].exists)
            => TaskOwner(syncJobs'[s].task) = response'.caller
       /\ \A k \in connections' \ connections :
            meetings[k[2]].exists => meetings[k[2]].user_id = k[1]]_vars

(* ---- claims about the sync worker ------------------------------------------ *)
FailFailOk == <<"fail", "fail", "ok">>

\* C10: when the adapter failed on a sync job's first two attempts and succeeds
\* on the third, that attempt leaves the task synced with external_id,
\* external_service and synced_at set, and the integration's error_count 0.
C10_SyncedAfterTwoFailures ==
    [][\A s \in SyncJobIds :
          (/\ syncJobs[s].pc = "loaded"
           /\ syncJobs'[s].pc # "loaded"
           /\ syncJobs'[s].attempts = FailFailOk)
          => LET t == syncJobs[s].task
                 i == syncJobs[s].integration
             IN  /\ syncJobs'[s].pc = "done"
                 /\ tasks'[t].status = "synced"
                 /\ tasks'[t].external_id # None
                 /\ tasks'[t].external_service = integrations[i].integration_type
                 /\ tasks'[t].synced_at # None
                 /\ integrations'[i].error_count = 0]_vars

C10_Witness ==
    \E s \in SyncJobIds :
        /\ syncJobs[s].pc = "done"
        /\ syncJobs[s].attempts = FailFailOk
        /\ syncJobs[s].retries = 2
        /\ tasks[syncJobs[s].task].status = "synced"
        /\ integrations[syncJobs[s].integration].last_error = "error"
        /\ integrations[syncJobs[s].integration].error_count = 0

\* Job s is the only sync job there has been.
OnlySyncJob(s) == \A k \in SyncJobIds \ {s} : syncJobs[k].pc = "free"

\* C11: when every attempt of the one sync job fails (the adapter returns
\* success = False, or building the adapter raises), the job gives up after
\* the last retry with the task not synced and the integration's error_count
\* equal to the number of failed attempts, last_error recorded.
C11_AllFailuresCounted ==
    [][\A s \in SyncJobIds :
          (/\ OnlySyncJob(s)
           /\ syncJobs[s].pc = "loaded"
           /\ syncJobs'[s].pc = "exhausted")
          => LET t == syncJobs[s].task
                 i == syncJobs[s].integration
             IN  /\ tasks'[t].status # "synced"
                 /\ tasks'[t].external_id = None
                 /\ integrations'[i].error_count = Len(syncJobs'[s].attempts)
                 /\ integrations'[i].last_error # None]_vars

\* C12: syncs of different tasks are independent.  A step of a sync job leaves
\* every task other than its own as it is; a loaded job on a supported
\* integration can deliver and a queued job can be taken, whatever the other
\* jobs did; and a delivery that succeeds leaves its task synced.
C12_SyncsIndependent ==
    /\ [][\A s \in SyncJobIds, t \in TaskIds :
            (/\ syncJobs[s].pc = "loaded"
             /\ syncJobs'[s] # syncJobs[s]
             /\ t # syncJobs[s].task)
            => tasks'[t] = tasks[t]]_vars
    /\ [][\A s \in SyncJobIds :
            (syncJobs[s].pc = "loaded" /\ syncJobs'[s].pc = "done")
            => /\ tasks'[syncJobs[s].task].status = "synced"
               /\ tasks'[syncJobs[s].task].external_id # None]_vars
    /\ [](\A s \in SyncJobIds :
            /\ (/\ syncJobs[s].pc = "loaded"
                /\ integrations[syncJobs[s].integration].integration_type \in SupportedTypes)
               => ENABLED SyncAttempt(s, "ok")
            /\ syncJobs[s].pc = "queued" => ENABLED SyncLoad(s))

\* One task's sync gave up after its last retry, the other task, delivered
\* through the same integration before that, is synced.
C12_Witness ==
    \E s1, s2 \in SyncJobIds :
        /\ syncJobs[s1].pc = "exhausted"
        /\ syncJobs[s2].pc = "done"
        /\ syncJobs[s1].task # syncJobs[s2].task
        /\ syncJobs[s1].integration = syncJobs[s2].integration
        /\ integrations[syncJobs[s1].integration].error_count > 0
        /\ tasks[syncJobs[s2].task].status = "synced"
        /\ tasks[syncJobs[s1].task].status # "synced"

(* ---- claims about the duplicate search -------------------------------------- *)
Answered == query.pc = "answered" /\ query.embedOk

\* The threshold the caller asked for (the default when left out).
AskedThreshold == IF query.threshold = <<>> THEN SimilarityThreshold ELSE query.threshold[1]

\* The reference: same user, embedding present, similarity not below the threshold.
Reference ==
    {i \in StoredIds : /\ corpus[i].user = query.user
                       /\ corpus[i].embedded
                       /\ corpus[i].similarity >= AskedThreshold}

FoundIds == {found[k] : k \in 1..Len(found)}

\* C13: the list returned by the duplicate search is the reference result:
\* the stored tasks of the same user with an embedding and a similarity not
\* below the threshold, by descending similarity, cut to the limit of 5.
C13_SearchIsReference ==
    Answered =>
        /\ FoundIds \subseteq Reference
        /\ Cardinality(FoundIds) = Len(found)
        /\ Len(found) = IF Cardinality(Reference) < SearchLimit
                        THEN Cardinality(Reference) ELSE SearchLimit
        /\ \A k \in 1..(Len(found) - 1) :
                corpus[found[k]].similarity >= corpus[found[k + 1]].similarity
        /\ \A i \in Reference \ FoundIds, k \in 1..Len(found) :
                corpus[i].similarity <= corpus[found[k]].similarity

\* The stored tasks of the asking user that are identical to the query.
ExactMatches ==
    {i \in StoredIds : /\ corpus[i].user = query.user
                       /\ corpus[i].embedded
                       /\ corpus[i].similarity = 100}

\* C14: for every threshold t in [0, 1.0] given to the search, a stored task
\* of the same user with similarity exactly 1.0 is returned (unless the limit
\* of 5 is already filled), and no task with a similarity below t is returned.
C14_ExactMatchReturned ==
    (Answered /\ query.threshold # <<>>) =>
        /\ \A i \in ExactMatches : i \in FoundIds \/ Len(found) = SearchLimit
        /\ \A k \in 1..Len(found) : corpus[found[k]].similarity >= query.threshold[1]

(* ---- claims about deduplication in the pipeline ----------------------------- *)
Dedups(j) == jobs[j].pc = "dedup" /\ jobs'[j].pc = "finalize"

\* C15: whenever the dedup phase marks a newly extracted task as a duplicate,
\* its duplicate_of_id names a different task that was stored before this run
\* created its tasks (not the task itself, not a sibling of the same run), and
\* the referenced task is left unchanged.
C15_DuplicateOfExisting ==
    [][\A j \in JobIds : Dedups(j) =>
          \A t \in jobs[j].created :
              (tasks'[t].is_duplicate /\ ~tasks[t].is_duplicate) =>
                  LET ref == tasks'[t].duplicate_of_id
                  IN /\ ref # t
                     /\ ref \notin jobs[j].created
                     /\ tasks[ref].exists
                     /\ tasks'[ref] = tasks[ref]]_vars

\* C16: deduplication is advisory: a run that has created its tasks leaves
\* the dedup phase towards Finalize with every created task still stored,
\* whether or not embedding generation or the similarity query failed, and
\* no meeting is failed with the embedding provider's error as its error.
C16_DedupAdvisory ==
    /\ [][\A j \in JobIds :
            (jobs[j].pc = "dedup" /\ jobs'[j] # jobs[j]) =>
                /\ jobs'[j].pc = "finalize"
                /\ \A t \in jobs[j].created : tasks'[t].exists]_vars
    /\ [](\A m \in MeetingIds :
            ~(meetings[m].status = "failed"
              /\ meetings[m].error_message = "embeddings API error"))

(* ---- claims about chunked transcription ------------------------------------- *)
Chunked == chunking.pc \in {"chunked", "done", "stored"} /\ chunking.windows # <<>>

\* The provider's output for one window is ordered by start time, with
\* non-negative times and end_time >= start_time.
WellFormed(output) ==
    /\ \A k \in 1..Len(output) :
          0 <= output[k].start_time /\ output[k].start_time <= output[k].end_time
    /\ \A k \in 1..(Len(output) - 1) : output[k].start_time <= output[k + 1].start_time

\* C17: for a transcript produced by chunked transcription from well-formed
\* window outputs, the stored segments in sequence_number order have
\* non-decreasing start_time, whatever the number of windows and also when
\* windows yield no segments.
C17_TimelineMonotonic ==
    (/\ Chunked
     /\ chunking.pc = "stored"
     /\ \A k \in 1..Len(chunking.outputs) : WellFormed(chunking.outputs[k]))
    => \A a, b \in segments :
          a.sequence_number < b.sequence_number => a.start_time <= b.start_time

C17_Witness ==
    /\ Chunked
    /\ chunking.pc = "stored"
    /\ Len(chunking.windows) = 3
    /\ \A k \in 1..3 : WellFormed(chunking.outputs[k])
    /\ Len(chunking.outputs[1]) = 2
    /\ chunking.outputs[1][2].start_time > 0
    /\ chunking.outputs[2] = <<>>
    /\ chunking.outputs[3] # <<>>
    /\ chunking.outputs[3][1].start_time = 0
    /\ Cardinality(segments) >= 3

Last(seq) == seq[Len(seq)]

WindowDuration(k) == chunking.windows[k].end_ms - chunking.windows[k].start_ms

\* The position in all_segments of segment n of window k.
Position(k, n) ==
    LET RECURSIVE Before_(_)
        Before_(w) == IF w = 0 THEN 0 ELSE Before_(w - 1) + Len(chunking.outputs[w])
    IN Before_(k - 1) + n

RedactorOutput == RedactTranscript(ProviderText).redacted_text

\* C19: every text the pipeline persists for a transcript (full_text and the
\* text of its segments) and every text it passes to the task extractor is
\* output of the redactor; the pre-redaction text is stored only as its hash.
C19_OnlyRedactedTextLeaves ==
    /\ \A m \in MeetingIds : (transcripts[m].exists /\ transcripts[m].tx = 0) =>
          /\ transcripts[m].full_text = RedactorOutput
          /\ transcripts[m].segments_text = RedactorOutput
          /\ transcripts[m].original_text_hash = RedactTranscript(ProviderText).original_hash
    /\ \A j \in JobIds : jobs[j].extractor_input \in {None, RedactorOutput}

(* ---- claims about task status ------------------------------------------------ *)
StatusRank(st) ==
    CASE st = "draft" -> 0
      [] st = "pending" -> 1
      [] st = "synced" -> 2
      [] st = "completed" -> 3
      [] OTHER -> 4

\* C20: a task's status only moves forward along draft -> pending -> synced
\* -> completed, and rejected and failed are absorbing: no operation changes
\* the status of a task that is rejected or failed.
C20_StatusMovesForward ==
    [][\A t \in TaskIds :
          (tasks[t].exists /\ tasks'[t].exists) =>
              /\ tasks[t].status \in {"rejected", "failed"}
                    => tasks'[t].status = tasks[t].status
              /\ StatusRank(tasks[t].status) <= StatusRank(tasks'[t].status)]_vars

(* ---- claims about the integration error fields ------------------------------ *)
\* A sync delivery attempt to integration i takes its step.
SyncDelivers(i) ==
    \E s \in SyncJobIds : /\ syncJobs[s].pc = "loaded"
                          /\ syncJobs[s].integration = i
                          /\ syncJobs'[s].pc # "loaded"

\* C21: error_count and last_error of an integration change only in a sync
\* delivery attempt to that integration; a connection test, an update, a
\* listing or a sync against another integration leaves them as they are.
C21_ErrorFieldsOnlyBySync ==
    [][\A i \in IntegrationIds :
          (/\ integrations[i].exists
           /\ integrations'[i].exists
           /\ \/ integrations'[i].error_count # integrations[i].error_count
              \/ integrations'[i].last_error # integrations[i].last_error)
          => SyncDelivers(i)]_vars

(* ---- claims about meeting deletion -------------------------------------------- *)
\* In SpecDelete every meeting id starts as a created meeting, so an id
\* without a row is the id of a deleted meeting.
Deleted(m) == ~meetings[m].exists

\* C22: after the owner deleted a meeting, whatever its status and whether or
\* not a pipeline run for it was in flight, every get of the meeting answers
\* not-found, the meeting does not come back, and no transcript (with its
\* segments) or task that references it exists then or later.
C22_DeletedMeetingIsGone ==
    /\ [](\A m \in MeetingIds : Deleted(m) =>
            /\ ~transcripts[m].exists
            /\ \A t \in TaskIds : ~(tasks[t].exists /\ tasks[t].meeting_id = m))
    /\ [][\A m \in MeetingIds : Deleted(m) =>
            /\ Deleted(m)'
            /\ GetMeeting("u1", m) => response'.code = 404]_vars

\* deleted while a run was past the audio work; that run then failed to
\* store its transcript, and a get was answered with 404
C22_Witness ==
    \E m \in MeetingIds, j \in JobIds :
        /\ Deleted(m)
        /\ jobs[j].meeting = m
        /\ jobs[j].pc = "handler"
        /\ jobs[j].cause = "unique"
        /\ response = Respond("u1", 404, {})

(* ---- claims about retrying ---------------------------------------------------- *)
\* The delay scheduled before retry k: 60, 120, 240 seconds.
RetryDelay(k) == 60 * 2^(k - 1)

\* An attempt of sync job s comes to its end.
SyncEnds(s) == syncJobs[s].pc = "loaded" /\ syncJobs'[s].pc # "loaded"

\* C23: a process_meeting or sync_task_to_external job runs at most 4 times;
\* an attempt that failed is followed by retry k = 1, 2, 3 after 60 * 2^(k-1)
\* seconds, and after the failure of the fourth attempt by no other: a job
\* stops succeeded or exhausted.
C23_RetriesBounded ==
    /\ [](\A j \in JobIds : jobs[j].retries <= MaxRetries)
    /\ [](\A s \in SyncJobIds : syncJobs[s].retries <= MaxRetries)
    /\ [][\A j \in JobIds : Handles(j) =>
            \/ /\ jobs[j].retries < MaxRetries
               /\ jobs'[j].pc = "queued"
               /\ jobs'[j].retries = jobs[j].retries + 1
               /\ jobs'[j].countdown = RetryDelay(jobs'[j].retries)
            \/ /\ jobs[j].retries = MaxRetries
               /\ jobs'[j].pc = "exhausted"]_vars
    /\ [][\A s \in SyncJobIds : SyncEnds(s) =>
            \/ syncJobs'[s].pc = "done"
            \/ /\ syncJobs[s].retries < MaxRetries
               /\ syncJobs'[s].pc = "queued"
               /\ syncJobs'[s].retries = syncJobs[s].retries + 1
               /\ syncJobs'[s].countdown = RetryDelay(syncJobs'[s].retries)
            \/ /\ syncJobs[s].retries = MaxRetries
               /\ syncJobs'[s].pc = "exhausted"]_vars

(* ---- claims about the priority mapping --------------------------------------- *)
\* The input with case and surrounding whitespace set aside.
Word == priority.input.word

Bare == ~priority.input.lead /\ ~priority.input.trail

\* C24: _normalize_priority answers High for high/urgent/critical, Low for
\* low/minor and Medium for anything else, whatever the case and the
\* surrounding whitespace; map_priority_to_enum answers the enum of
\* high/urgent/medium/low whatever the case, and MEDIUM for any other string;
\* each call returns one of these values.
C24_PriorityMappingTotal ==
    /\ priority.pc = "normalized" =>
          priority.result = IF Word \in {"high", "urgent", "critical"} THEN "High"
                            ELSE IF Word \in {"low", "minor"} THEN "Low"
                            ELSE "Medium"
    /\ priority.pc = "mapped" =>
          priority.result = IF Bare /\ Word = "high" THEN "TaskPriority.HIGH"
                            ELSE IF Bare /\ Word = "urgent" THEN "TaskPriority.URGENT"
                            ELSE IF Bare /\ Word = "low" THEN "TaskPriority.LOW"
                            ELSE "TaskPriority.MEDIUM"

C24_Witness ==
    /\ priority.pc = "normalized"
    /\ priority.input = [word |-> "urgent", casing |-> "upper", lead |-> TRUE, trail |-> TRUE]
    /\ priority.result = "High"

(* ---- claims about sync delivery ------------------------------------------------ *)
\* The sync jobs in which the adapter's create_task succeeded for task t on
\* integration i; each stands for one task created in the external service.
Deliveries(t, i) ==
    {s \in SyncJobIds : /\ syncJobs[s].task = t
                        /\ syncJobs[s].integration = i
                        /\ \E k \in 1..Len(syncJobs[s].attempts) :
                              syncJobs[s].attempts[k] = "ok"}

\* C25: for each task and integration at most one external task is ever
\* created: after an attempt whose create_task succeeded no other delivery
\* is made, also not on a later sync request for the synced task.
C25_AtMostOneExternalTask ==
    \A t \in TaskIds, i \in IntegrationIds : Cardinality(Deliveries(t, i)) <= 1

(* ---- claims about the upload request ------------------------------------------- *)
\* Job j takes its meeting from the database (get_by_id found the row).
Loads(j) == jobs[j].pc = "queued" /\ jobs'[j].pc = "loaded"

\* C26: a pipeline run never reads its meeting before the upload request that
\* scheduled it has committed: whenever process_meeting loads the meeting,
\* the row it reads carries the path of the uploaded file.
C26_LoadAfterUploadCommit ==
    [][\A j \in JobIds :
          Loads(j) => /\ uploadTx[jobs[j].meeting] # "open"
                      /\ meetings[jobs[j].meeting].audio_file_path = "path"]_vars

(* ---- claims about the integration's error count -------------------------------- *)
\* The attempts on integration i that had the given outcome, as <<job, attempt>>.
AttemptsWith(i, outcome) ==
    {x \in SyncJobIds \X (1..(MaxRetries + 1)) :
        /\ syncJobs[x[1]].integration = i
        /\ x[2] <= Len(syncJobs[x[1]].attempts)
        /\ syncJobs[x[1]].attempts[x[2]] = outcome}

\* C27: when sync attempts against one integration fail, also concurrently in
\* separate workers, no increment is lost: as long as no attempt succeeded,
\* error_count is the number of failed attempts.
C27_NoLostIncrement ==
    \A i \in IntegrationIds :
        (integrations[i].exists /\ AttemptsWith(i, "ok") = {})
            => integrations[i].error_count = Cardinality(AttemptsWith(i, "fail"))

\* A sync attempt on integration i ends with the adapter's success.
SyncSucceeds(i) ==
    \E s \in SyncJobIds : /\ syncJobs[s].pc = "loaded"
                          /\ syncJobs[s].integration = i
                          /\ syncJobs'[s].pc = "done"

\* C28: clear_error leaves the integration with error_count = 0 and
\* last_error = null: after a successful sync, also one that follows earlier
\* failures, the integration reports no last error.
C28_ClearErrorClearsBoth ==
    [][\A i \in IntegrationIds :
          SyncSucceeds(i) => /\ integrations'[i].error_count = 0
                             /\ integrations'[i].last_error = None]_vars

(* ---- claims about the completed meeting ---------------------------------------- *)
\* C29: whenever a meeting's persisted status is completed its error_message
\* is empty: a run that completes after an earlier failed run of the same
\* meeting leaves no error text of the failed run on the meeting.
C29_CompletedHasNoError ==
    \A m \in MeetingIds :
        meetings[m].status = "completed" => meetings[m].error_message = None

(* ---- claims about the failed upload --------------------------------------------- *)
\* The upload request of meeting m that failed inside upload_audio finishes.
FailedUploadEnds(m) == uploadTx[m] = "failed" /\ uploadTx'[m] = "none"

\* C30: when saving the audio, reading its duration or scheduling the
\* processing fails inside upload_audio, then after the request has finished
\* the meeting's persisted status is failed and its error_message is set (the
\* meeting is not left in pending or uploading).
C30_UploadFailureRecorded ==
    [][\A m \in MeetingIds :
          FailedUploadEnds(m) => /\ meetings'[m].status = "failed"
                                 /\ meetings'[m].error_message # None]_vars

====
